---- MODULE Spec2Model ----
(***************************************************************************)
(* A model of the top level of the asn1tools package                       *)
(* (src/asn1tools/__init__.py): the time conversion helpers                *)
(* utc_time_to_datetime / utc_time_from_datetime /                         *)
(* generalized_time_to_datetime / generalized_time_from_datetime and the   *)
(* command line interface (_main, _do_convert, _compile_files,             *)
(* _convert_hexstring, _do_shell and its command handlers).                *)
(*                                                                         *)
(* Strings whose characters the code inspects (time strings, command line  *)
(* words, file names, input lines) are sequences of one-character strings. *)
(* The interpreter modelled is Python 3 (line 366,                         *)
(* sys.version_info[0] > 2).                                               *)
(*                                                                         *)
(* Specifications: Spec, the process from its command line to its exit;    *)
(* TimeSpec, the time helpers on datetimes and strings; ArgsSpec, the      *)
(* argument parsers on a wide set of command lines; CompileSpec,           *)
(* _compile_files on every short list of files.                            *)
(***************************************************************************)
EXTENDS Integers, Sequences, FiniteSets, TLC

VARIABLES
    \* ---- time conversion helpers
    tpc,            \* position of the time-helper run
    date,           \* the datetime handed to a *_from_datetime helper
    string,         \* the time string produced / handed to a *_to_datetime helper
    decoded,        \* what the *_to_datetime helper returned or raised
    libcPadsYear,   \* platform: does the C library's %Y zero-pad years below 1000
    \* ---- command line interface
    pc,             \* position of the process
    argv,           \* sys.argv[1:], a sequence of words
    args,           \* the namespace parse_args returned
    input_spec,     \* local of _do_convert / _do_shell
    output_spec,    \* local of _do_convert / _do_shell
    output_codec,   \* local of _do_shell
    stdin,          \* the lines of standard input not read yet
    consumed,       \* the lines read so far from standard input / the prompt
    stdout,         \* what has been printed, one entry per print call
    exitStatus,     \* the exit status of the process once pc = "exited"
    raised,         \* every exception raised by the package's code so far, with its site
    calls           \* the calls into parser, compiler, pickle and codecs made by the last step

timeVars == <<tpc, date, string, decoded, libcPadsYear>>

cliVars == <<pc, argv, args, input_spec, output_spec, output_codec, stdin, consumed, stdout,
             exitStatus, raised, calls>>

vars == <<tpc, date, string, decoded, libcPadsYear,
          pc, argv, args, input_spec, output_spec, output_codec, stdin, consumed, stdout,
          exitStatus, raised, calls>>

(***************************************************************************)
(* Characters and decimal fields                                           *)
(***************************************************************************)
Digit == <<"0", "1", "2", "3", "4", "5", "6", "7", "8", "9">>

DigitChar(n) == Digit[n + 1]

IsDigit(c) == \E i \in 1..10 : Digit[i] = c

DigitVal(c) == CHOOSE n \in 0..9 : Digit[n + 1] = c

\* '%02d' % n
Pad2(n) == <<DigitChar((n \div 10) % 10), DigitChar(n % 10)>>

\* '%04d' % n
Pad4(n) == Pad2(n \div 100) \o Pad2(n % 100)

\* '%06d' % n
Pad6(n) == Pad2(n \div 10000) \o Pad4(n % 10000)

RECURSIVE Decimal(_)
\* str(n) for n >= 0: no padding
Decimal(n) == IF n < 10 THEN <<DigitChar(n)>> ELSE Decimal(n \div 10) \o <<DigitChar(n % 10)>>

\* s[i] with i counted from 1; "" when i is outside the string
CharAt(s, i) == IF i \in 1..Len(s) THEN s[i] ELSE ""

\* Python's s[:n] for n >= 0
Prefix(s, n) == SubSeq(s, 1, IF n < Len(s) THEN n ELSE Len(s))

RECURSIVE IntOf(_)
\* int(s) of a string of digits (a leading blank, as %d admits, counts as nothing)
IntOf(s) ==
    IF s = <<>> THEN 0
    ELSE IF IsDigit(s[Len(s)])
         THEN 10 * IntOf(SubSeq(s, 1, Len(s) - 1)) + DigitVal(s[Len(s)])
         ELSE IntOf(SubSeq(s, 1, Len(s) - 1))

(***************************************************************************)
(* datetime.datetime and datetime.timezone                                 *)
(*                                                                         *)
(* A datetime is a record; tzinfo is NoTz for a naive datetime and         *)
(* otherwise a timezone, which holds its fixed UTC offset in seconds.      *)
(***************************************************************************)
NoTz == <<>>

\* timezone(timedelta(seconds=offset))
timezone(offset) == <<offset>>

\* tzinfo.utcoffset() in seconds
UtcOffset(tz) == tz[1]

\* UTC = timezone.utc
UTC == timezone(0)

IsLeap(y) == (y % 4 = 0) /\ ((y % 100 # 0) \/ (y % 400 = 0))

DaysInMonth(y, m) ==
    IF m = 2 THEN (IF IsLeap(y) THEN 29 ELSE 28)
    ELSE IF m \in {4, 6, 9, 11} THEN 30 ELSE 31

RECURSIVE DaysBeforeMonth(_, _)
DaysBeforeMonth(y, m) == IF m = 1 THEN 0 ELSE DaysBeforeMonth(y, m - 1) + DaysInMonth(y, m - 1)

\* datetime.toordinal()
Ordinal(d) ==
    LET y == d.year - 1
    IN y * 365 + (y \div 4) - (y \div 100) + (y \div 400)
       + DaysBeforeMonth(d.year, d.month) + d.day

\* the instant of an aware datetime: wall clock minus UTC offset, as the day
\* number and the second of that day
Instant(d) ==
    LET secs == (d.hour * 60 + d.minute) * 60 + d.second - UtcOffset(d.tz)
    IN <<Ordinal(d) + (secs \div 86400), secs % 86400>>

\* datetime.__eq__: naive against aware is unequal, two aware datetimes
\* compare as instants (wall clock minus UTC offset), two naive ones by fields
DatetimeEq(a, b) ==
    IF a.tz = NoTz \/ b.tz = NoTz
    THEN a = b
    ELSE /\ Instant(a) = Instant(b)
         /\ a.microsecond = b.microsecond

\* timezone.__eq__ (tzinfo == UTC): timezones are equal when their offsets are
TzEq(tz, other) == tz # NoTz /\ other # NoTz /\ UtcOffset(tz) = UtcOffset(other)

\* the datetime constructor's range checks (ValueError otherwise)
ValidDatetime(d) ==
    /\ d.year \in 1..9999
    /\ d.month \in 1..12
    /\ d.day \in 1..DaysInMonth(d.year, d.month)
    /\ d.hour \in 0..23
    /\ d.minute \in 0..59
    /\ d.second \in 0..59
    /\ d.microsecond \in 0..999999
    /\ (d.tz = NoTz \/ (UtcOffset(d.tz) > -86400 /\ UtcOffset(d.tz) < 86400))

NoDate == [year |-> 0, month |-> 0, day |-> 0, hour |-> 0, minute |-> 0,
           second |-> 0, microsecond |-> 0, tz |-> NoTz]

(***************************************************************************)
(* datetime.strftime.  A format is a sequence of directives and literal    *)
(* characters.  %f and %z are expanded by datetime itself, the rest by the *)
(* C library, whose %Y leaves years below 1000 unpadded on some platforms. *)
(***************************************************************************)
FormatOffset(tz) ==
    IF tz = NoTz THEN <<>>
    ELSE LET off == UtcOffset(tz)
             a == IF off < 0 THEN -off ELSE off
             hh == a \div 3600
             mm == (a % 3600) \div 60
             ss == a % 60
         IN <<IF off < 0 THEN "-" ELSE "+">> \o Pad2(hh) \o Pad2(mm)
            \o (IF ss # 0 THEN Pad2(ss) ELSE <<>>)

FormatField(tok, d) ==
    CASE tok = "%y" -> Pad2(d.year % 100)
      [] tok = "%Y" -> IF d.year >= 1000 \/ libcPadsYear THEN Pad4(d.year) ELSE Decimal(d.year)
      [] tok = "%m" -> Pad2(d.month)
      [] tok = "%d" -> Pad2(d.day)
      [] tok = "%H" -> Pad2(d.hour)
      [] tok = "%M" -> Pad2(d.minute)
      [] tok = "%S" -> Pad2(d.second)
      [] tok = "%f" -> Pad6(d.microsecond)
      [] tok = "%z" -> FormatOffset(d.tz)
      [] OTHER -> <<tok>>

RECURSIVE strftime(_, _)
strftime(d, fmt) ==
    IF fmt = <<>> THEN <<>> ELSE FormatField(Head(fmt), d) \o strftime(d, Tail(fmt))

(***************************************************************************)
(* datetime.strptime.  The format becomes a regular expression, one group  *)
(* per directive, matched from the start of the string by a backtracking   *)
(* matcher; the match must then cover the whole string.  FieldAlts lists,  *)
(* in the matcher's order of preference, the lengths a directive can take  *)
(* at a position.                                                          *)
(***************************************************************************)
Between(c, lo, hi) == IsDigit(c) /\ DigitVal(c) >= lo /\ DigitVal(c) <= hi

\* %z: [+-]\d\d:?[0-5]\d(:?[0-5]\d)?|Z
OffsetAlts(s, p) ==
    LET signed == /\ CharAt(s, p) \in {"+", "-"}
                  /\ IsDigit(CharAt(s, p + 1)) /\ IsDigit(CharAt(s, p + 2))
        q == IF CharAt(s, p + 3) = ":" THEN p + 4 ELSE p + 3
        mins == signed /\ Between(CharAt(s, q), 0, 5) /\ IsDigit(CharAt(s, q + 1))
        r == IF CharAt(s, q + 2) = ":" THEN q + 3 ELSE q + 2
        secs == mins /\ Between(CharAt(s, r), 0, 5) /\ IsDigit(CharAt(s, r + 1))
    IN (IF secs THEN <<r + 2 - p>> ELSE <<>>)
       \o (IF mins THEN <<q + 2 - p>> ELSE <<>>)
       \o (IF CharAt(s, p) = "Z" THEN <<1>> ELSE <<>>)

RECURSIVE DigitRun(_, _, _)
\* how many digits, n at most, stand at s[p..]
DigitRun(s, p, n) ==
    IF n = 0 \/ ~IsDigit(CharAt(s, p)) THEN 0 ELSE 1 + DigitRun(s, p + 1, n - 1)

RECURSIVE Downto(_)
Downto(n) == IF n = 0 THEN <<>> ELSE <<n>> \o Downto(n - 1)

FieldAlts(tok, s, p) ==
    LET a == CharAt(s, p)
        b == CharAt(s, p + 1)
        two(ok) == IF ok THEN <<2>> ELSE <<>>
        one(ok) == IF ok THEN <<1>> ELSE <<>>
    IN CASE tok = "%y" -> two(IsDigit(a) /\ IsDigit(b))
         [] tok = "%Y" -> IF DigitRun(s, p, 4) = 4 THEN <<4>> ELSE <<>>
         \* 1[0-2]|0[1-9]|[1-9]
         [] tok = "%m" -> two((a = "1" /\ Between(b, 0, 2)) \/ (a = "0" /\ Between(b, 1, 9)))
                          \o one(Between(a, 1, 9))
         \* 3[01]|[12]\d|0[1-9]|[1-9]| [1-9]
         [] tok = "%d" -> two(\/ (a = "3" /\ Between(b, 0, 1))
                              \/ (Between(a, 1, 2) /\ IsDigit(b))
                              \/ (a = "0" /\ Between(b, 1, 9)))
                          \o one(Between(a, 1, 9))
                          \o two(a = " " /\ Between(b, 1, 9))
         \* 2[0-3]|[0-1]\d|\d
         [] tok = "%H" -> two((a = "2" /\ Between(b, 0, 3)) \/ (Between(a, 0, 1) /\ IsDigit(b)))
                          \o one(IsDigit(a))
         \* [0-5]\d|\d
         [] tok = "%M" -> two(Between(a, 0, 5) /\ IsDigit(b)) \o one(IsDigit(a))
         \* 6[0-1]|[0-5]\d|\d
         [] tok = "%S" -> two((a = "6" /\ Between(b, 0, 1)) \/ (Between(a, 0, 5) /\ IsDigit(b)))
                          \o one(IsDigit(a))
         \* [0-9]{1,6}
         [] tok = "%f" -> Downto(DigitRun(s, p, 6))
         [] tok = "%z" -> OffsetAlts(s, p)
         [] OTHER -> one(a = tok)

NoMatch == [ok |-> FALSE, lens |-> <<>>]

RECURSIVE FirstMatch(_, _, _), TryAlts(_, _, _, _)
\* the lengths the regular expression's groups take in its first match at s[p..]
FirstMatch(fmt, s, p) ==
    IF fmt = <<>> THEN [ok |-> TRUE, lens |-> <<>>]
    ELSE TryAlts(FieldAlts(Head(fmt), s, p), fmt, s, p)

TryAlts(alts, fmt, s, p) ==
    IF alts = <<>> THEN NoMatch
    ELSE LET rest == FirstMatch(Tail(fmt), s, p + Head(alts))
         IN IF rest.ok THEN [ok |-> TRUE, lens |-> <<Head(alts)>> \o rest.lens]
            ELSE TryAlts(Tail(alts), fmt, s, p)

RECURSIVE SumTo(_, _)
SumTo(lens, i) == IF i = 0 THEN 0 ELSE lens[i] + SumTo(lens, i - 1)

\* the text group i of the match holds
Group(s, lens, i) == SubSeq(s, SumTo(lens, i - 1) + 1, SumTo(lens, i))

\* the matched text of directive tok (<<>> when the format has none)
FieldText(fmt, s, lens, tok) ==
    IF \E i \in 1..Len(fmt) : fmt[i] = tok
    THEN Group(s, lens, CHOOSE i \in 1..Len(fmt) : fmt[i] = tok)
    ELSE <<>>

HasField(fmt, tok) == \E i \in 1..Len(fmt) : fmt[i] = tok

\* the UTC offset in seconds of a matched %z
ParseOffset(z) ==
    IF z = <<"Z">> THEN 0
    ELSE LET digits == SelectSeq(Tail(z), IsDigit)
             secs == IntOf(SubSeq(digits, 1, 2)) * 3600 + IntOf(SubSeq(digits, 3, 4)) * 60
                     + IntOf(SubSeq(digits, 5, Len(digits)))
         IN IF z[1] = "-" THEN -secs ELSE secs

\* %f: the digits, padded with zeros on the right to six
ParseFraction(f) ==
    LET padded == f \o SubSeq(<<"0", "0", "0", "0", "0", "0">>, 1, 6 - Len(f))
    IN IntOf(padded)

\* %y: values 69-99 map to 1969-1999, values 0-68 to 2000-2068
ParseYear2(y) == IF IntOf(y) <= 68 THEN 2000 + IntOf(y) ELSE 1900 + IntOf(y)

Returned(d) == [kind |-> "datetime", dt |-> d, msg |-> "", arg |-> <<>>]

Raised(kind, m, a) == [kind |-> kind, dt |-> NoDate, msg |-> m, arg |-> a]

ValueError == Raised("ValueError", "", <<>>)

IndexError == Raised("IndexError", "", <<>>)

\* datetime.strptime(data, fmt): a datetime, or ValueError when the string
\* does not match, text remains after the match, or a field is out of range
DatetimeStrptime(data, fmt) ==
    LET m == FirstMatch(fmt, data, 1)
        text(tok) == FieldText(fmt, data, m.lens, tok)
        num(tok, dflt) == IF HasField(fmt, tok) THEN IntOf(text(tok)) ELSE dflt
        d == [year |-> IF HasField(fmt, "%Y") THEN IntOf(text("%Y"))
                       ELSE IF HasField(fmt, "%y") THEN ParseYear2(text("%y")) ELSE 1900,
              month |-> num("%m", 1),
              day |-> num("%d", 1),
              hour |-> num("%H", 0),
              minute |-> num("%M", 0),
              second |-> num("%S", 0),
              microsecond |-> IF HasField(fmt, "%f") THEN ParseFraction(text("%f")) ELSE 0,
              tz |-> IF HasField(fmt, "%z") THEN timezone(ParseOffset(text("%z"))) ELSE NoTz]
    IN IF ~m.ok THEN ValueError
       ELSE IF SumTo(m.lens, Len(m.lens)) # Len(data) THEN ValueError
       ELSE IF ~ValidDatetime(d) THEN ValueError
       ELSE Returned(d)

\* the package's strptime wrapper
strptime(data, fmt) == DatetimeStrptime(data, fmt)

(***************************************************************************)
(* The four time conversion helpers                                        *)
(***************************************************************************)
FmtUtcMinutes == <<"%y", "%m", "%d", "%H", "%M">>

FmtUtcSeconds == <<"%y", "%m", "%d", "%H", "%M", "%S">>

FmtGeneralized == <<"%Y", "%m", "%d", "%H", "%M", "%S">>

ExpectedUtc == "Expected an UTC time string, but got '{}'."

\* utc_time_to_datetime taking every string that ends in 'Z' and is not 11
\* characters long as one with seconds
utc_time_to_datetime_z_any_length(s) ==
    LET length == Len(s)
    IN IF length = 0 THEN IndexError
       ELSE IF s[length] = "Z"
       THEN IF length = 11 THEN DatetimeStrptime(Prefix(s, 10), FmtUtcMinutes)
            ELSE DatetimeStrptime(Prefix(s, length - 1), FmtUtcSeconds)
       ELSE IF length = 15 THEN strptime(s, FmtUtcMinutes \o <<"%z">>)
       ELSE IF length = 17 THEN strptime(s, FmtUtcSeconds \o <<"%z">>)
       ELSE Raised("Error", ExpectedUtc, s)

utc_time_to_datetime(s) ==
    LET length == Len(s)
    IN IF length = 0 THEN IndexError
       ELSE IF s[length] = "Z"
       THEN IF length = 11 THEN DatetimeStrptime(Prefix(s, 10), FmtUtcMinutes)
            ELSE IF length = 13 THEN DatetimeStrptime(Prefix(s, 12), FmtUtcSeconds)
            ELSE Raised("Error", ExpectedUtc, s)
       ELSE IF length = 15 THEN strptime(s, FmtUtcMinutes \o <<"%z">>)
       ELSE IF length = 17 THEN strptime(s, FmtUtcSeconds \o <<"%z">>)
       ELSE Raised("Error", ExpectedUtc, s)

\* utc_time_from_datetime writing the seconds whatever they are
utc_time_from_datetime_always_seconds(d) ==
    LET fmt2 == <<"%y", "%m", "%d", "%H", "%M", "%S">>
        fmt3 == IF d.tz = NoTz THEN fmt2 \o <<"Z">> ELSE fmt2 \o <<"%z">>
    IN strftime(d, fmt3)

utc_time_from_datetime(d) ==
    LET fmt1 == <<"%y", "%m", "%d", "%H", "%M">>
        fmt2 == IF d.second > 0 THEN fmt1 \o <<"%S">> ELSE fmt1
        fmt3 == IF d.tz = NoTz THEN fmt2 \o <<"Z">> ELSE fmt2 \o <<"%z">>
    IN strftime(d, fmt3)

\* date.replace(tzinfo=...) on what strptime returned
ReplaceTz(r, tz) == IF r.kind = "datetime" THEN Returned([r.dt EXCEPT !.tz = tz]) ELSE r

generalized_time_to_datetime(s) ==
    LET length == Len(s)
    IN IF length = 0 THEN IndexError
       ELSE IF s[length] = "Z"
       THEN ReplaceTz(IF length = 15
                      THEN DatetimeStrptime(Prefix(s, 14), FmtGeneralized)
                      ELSE DatetimeStrptime(SubSeq(s, 1, length - 1),
                                            FmtGeneralized \o <<".", "%f">>),
                      timezone(0))
       ELSE IF length < 5 THEN IndexError
       ELSE IF s[length - 4] \in {"-", "+"}
       THEN IF length = 19 THEN strptime(s, FmtGeneralized \o <<"%z">>)
            ELSE strptime(s, FmtGeneralized \o <<".", "%f", "%z">>)
       ELSE IF length = 14 THEN strptime(s, FmtGeneralized)
            ELSE strptime(s, FmtGeneralized \o <<".", "%f">>)

\* generalized_time_from_datetime never writing the fraction
generalized_time_from_datetime_no_fraction(d) ==
    LET fmt2 == <<"%Y", "%m", "%d", "%H", "%M", "%S">>
        fmt3 == IF d.tz # NoTz
                THEN (IF TzEq(d.tz, UTC) THEN fmt2 \o <<"Z">> ELSE fmt2 \o <<"%z">>)
                ELSE fmt2
    IN strftime(d, fmt3)

generalized_time_from_datetime(d) ==
    LET fmt1 == <<"%Y", "%m", "%d", "%H", "%M", "%S">>
        fmt2 == IF d.microsecond > 0 THEN fmt1 \o <<".", "%f">> ELSE fmt1
        fmt3 == IF d.tz # NoTz
                THEN (IF TzEq(d.tz, UTC) THEN fmt2 \o <<"Z">> ELSE fmt2 \o <<"%z">>)
                ELSE fmt2
    IN strftime(d, fmt3)

(***************************************************************************)
(* Inputs of the time helpers                                              *)
(***************************************************************************)
Years == {999, 1000, 1968, 1969, 1999, 2000, 2068, 2069, 9999}

MonthDays == {<<1, 1>>, <<2, 29>>, <<12, 31>>}

Clocks == {<<0, 0, 0>>, <<23, 59, 0>>, <<23, 59, 59>>, <<9, 5, 7>>}

Microseconds == {0, 1, 120000, 999999}

\* naive, UTC, whole-minute offsets up to +-23:59, and one offset with seconds
Offsets == {NoTz} \cup {timezone(o) : o \in {0, 19800, -19800, 86340, -86340, -60, 19830}}

Dates ==
    {d \in [year : Years, month : {md[1] : md \in MonthDays}, day : {md[2] : md \in MonthDays},
            hour : {c[1] : c \in Clocks}, minute : {c[2] : c \in Clocks},
            second : {c[3] : c \in Clocks}, microsecond : Microseconds, tz : Offsets] :
        /\ <<d.month, d.day>> \in MonthDays
        /\ <<d.hour, d.minute, d.second>> \in Clocks
        /\ ValidDatetime(d)}

MaxStringLen == 18

\* s cut or padded with "0" to n characters, its last character then set to c
Resize(s, n, c) ==
    LET body == [i \in 1..n |-> IF i <= Len(s) THEN s[i] ELSE "0"]
    IN IF n = 0 \/ c = "" THEN body ELSE [body EXCEPT ![n] = c]

BaseStrings ==
    {<<"9", "9", "1", "2", "3", "1", "2", "3", "5", "9", "5", "9", "+", "0", "5", "3", "0">>,
     <<"2", "4", "0", "2", "2", "9", "0", "0", "0", "0", "-", "2", "3", "5", "9">>,
     <<"6", "8", "0", "1", "0", "1", "0", "9", "0", "5", "0", "7", "Z">>,
     <<"0", "0", "1", "3", "4", "0", "2", "5", "6", "1", "6", "1", "x", "y">>}

RawStrings ==
    {Resize(b, n, c) : b \in BaseStrings, n \in 0..MaxStringLen, c \in {"", "Z", "5", "+"}}

NotRun == Raised("not run", "", <<>>)

(***************************************************************************)
(* Words of the command line, codec names and file names                   *)
(***************************************************************************)
w_convert == <<"c", "o", "n", "v", "e", "r", "t">>

w_shell == <<"s", "h", "e", "l", "l">>

w_parse == <<"p", "a", "r", "s", "e">>

w_pickle == <<"p", "i", "c", "k", "l", "e">>

w_compile == <<"c", "o", "m", "p", "i", "l", "e">>

w_help == <<"h", "e", "l", "p">>

w_exit == <<"e", "x", "i", "t">>

w_ber == <<"b", "e", "r">>

w_der == <<"d", "e", "r">>

w_jer == <<"j", "e", "r">>

w_per == <<"p", "e", "r">>

w_uper == <<"u", "p", "e", "r">>

w_xer == <<"x", "e", "r">>

w_gser == <<"g", "s", "e", "r">>

w_oer == <<"o", "e", "r">>

w_BER == <<"B", "E", "R">>

w_opt_d == <<"-", "d">>

w_opt_debug == <<"-", "-", "d", "e", "b", "u", "g">>

w_opt_i == <<"-", "i">>

w_opt_input_codec == <<"-", "-", "i", "n", "p", "u", "t", "-", "c", "o", "d", "e", "c">>

w_opt_o == <<"-", "o">>

w_opt_output_codec == <<"-", "-", "o", "u", "t", "p", "u", "t", "-", "c", "o", "d", "e", "c">>

w_opt_c == <<"-", "c">>

w_opt_codec == <<"-", "-", "c", "o", "d", "e", "c">>

w_dash == <<"-">>

w_suffix_py == <<".", "p", "y">>

w_suffix_pkl == <<".", "p", "k", "l">>

w_foo_asn == <<"f", "o", "o", ".", "a", "s", "n">>

w_bar_asn == <<"b", "a", "r", ".", "a", "s", "n">>

w_syntax_asn == <<"s", "y", "n", "t", "a", "x", ".", "a", "s", "n">>

w_unresolved_asn == <<"u", "n", "r", "e", "s", "o", "l", "v", "e", "d", ".", "a", "s", "n">>

w_foo_py == <<"f", "o", "o", ".", "p", "y">>

w_bar_py == <<"b", "a", "r", ".", "p", "y">>

w_foo_ber_pkl == <<"f", "o", "o", "_", "b", "e", "r", ".", "p", "k", "l">>

w_foo_uper_pkl == <<"f", "o", "o", "_", "u", "p", "e", "r", ".", "p", "k", "l">>

w_bar_jer_pkl == <<"b", "a", "r", "_", "j", "e", "r", ".", "p", "k", "l">>

w_out_py == <<"o", "u", "t", ".", "p", "y">>

w_out_pkl == <<"o", "u", "t", ".", "p", "k", "l">>

w_Foo == <<"F", "o", "o">>

w_hex_3000 == <<"3", "0", "0", "0">>

w_hex_ff == <<"f", "f">>

w_hex_zz == <<"z", "z">>

w_hex_0101 == <<"0", "1", "0", "1">>

w_line_compile_foo == <<"c", "o", "m", "p", "i", "l", "e", " ", "f", "o", "o", ".", "a", "s", "n">>

w_line_compile_uper_jer == <<"c", "o", "m", "p", "i", "l", "e", " ", "-", "i", " ", "u", "p", "e", "r", " ", "-", "o", " ", "j", "e", "r", " ", "f", "o", "o", ".", "a", "s", "n">>

w_line_compile_gser_in == <<"c", "o", "m", "p", "i", "l", "e", " ", "-", "i", " ", "g", "s", "e", "r", " ", "f", "o", "o", ".", "a", "s", "n">>

w_line_compile_syntax == <<"c", "o", "m", "p", "i", "l", "e", " ", "s", "y", "n", "t", "a", "x", ".", "a", "s", "n">>

w_line_compile_unresolved == <<"c", "o", "m", "p", "i", "l", "e", " ", "u", "n", "r", "e", "s", "o", "l", "v", "e", "d", ".", "a", "s", "n">>

w_line_convert_3000 == <<"c", "o", "n", "v", "e", "r", "t", " ", "F", "o", "o", " ", "3", "0", "0", "0">>

w_line_convert_zz == <<"c", "o", "n", "v", "e", "r", "t", " ", "F", "o", "o", " ", "z", "z">>

w_line_convert_ff == <<"c", "o", "n", "v", "e", "r", "t", " ", "F", "o", "o", " ", "f", "f">>

w_line_convert_0101 == <<"c", "o", "n", "v", "e", "r", "t", " ", "F", "o", "o", " ", "0", "1", "0", "1">>

w_line_convert_Foo == <<"c", "o", "n", "v", "e", "r", "t", " ", "F", "o", "o">>

w_line_help == <<"h", "e", "l", "p">>

w_line_exit == <<" ", "e", "x", "i", "t">>

w_line_blank == <<" ", " ">>

w_line_quit == <<"q", "u", "i", "t">>

w_stdin_3000 == <<"3", "0", "0", "0", "\n">>

w_stdin_ff == <<"f", "f", "\n">>

w_stdin_zz == <<"z", "z", "\n">>

w_stdin_empty == <<"\n">>

w_stdin_0101 == <<"0", "1", "0", "1", "\n">>

w_stdin_3000_eof == <<"3", "0", "0", "0">>

\* s.startswith(prefix)
StartsWith(s, prefix) == Len(s) >= Len(prefix) /\ SubSeq(s, 1, Len(prefix)) = prefix

\* s.endswith(suffix)
EndsWith(s, suffix) ==
    Len(s) >= Len(suffix) /\ SubSeq(s, Len(s) - Len(suffix) + 1, Len(s)) = suffix

Whitespace == {" ", "\t", "\r", "\n"}

RECURSIVE LStrip(_, _), RStrip(_, _)
LStrip(s, chars) == IF s # <<>> /\ Head(s) \in chars THEN LStrip(Tail(s), chars) ELSE s

RStrip(s, chars) ==
    IF s # <<>> /\ s[Len(s)] \in chars THEN RStrip(SubSeq(s, 1, Len(s) - 1), chars) ELSE s

\* s.strip(chars)
Strip(s, chars) == RStrip(LStrip(s, chars), chars)

RECURSIVE SplitFrom(_, _, _)
\* s.split(): the maximal runs of non-whitespace characters
SplitFrom(s, word, acc) ==
    IF s = <<>> THEN (IF word = <<>> THEN acc ELSE Append(acc, word))
    ELSE IF Head(s) \in Whitespace
         THEN SplitFrom(Tail(s), <<>>, IF word = <<>> THEN acc ELSE Append(acc, word))
         ELSE SplitFrom(Tail(s), Append(word, Head(s)), acc)

Split(s) == SplitFrom(s, <<>>, <<>>)

(***************************************************************************)
(* argparse.  Options are given as a flag followed by its value in the     *)
(* next word, and before the positional arguments.                         *)
(***************************************************************************)
\* the choices= of the codec options
\* ConvertInputCodecChoices with the choices of --output-codec
ConvertInputCodecChoicesAll == {w_ber, w_der, w_jer, w_per, w_uper, w_xer, w_gser}

ConvertInputCodecChoices == {w_ber, w_der, w_jer, w_per, w_uper, w_xer}

ConvertOutputCodecChoices == {w_ber, w_der, w_jer, w_per, w_uper, w_xer, w_gser}

PickleCodecChoices == {w_ber, w_der, w_jer, w_per, w_uper, w_xer, w_gser}

CompileInputCodecChoices == {w_ber, w_der, w_jer, w_per, w_uper, w_xer}

CompileOutputCodecChoices == {w_ber, w_der, w_jer, w_per, w_uper, w_xer, w_gser}

\* the subparsers added to the main parser
Subcommands == {w_convert, w_shell, w_parse, w_pickle}

Dests == {"input_codec", "output_codec", "codec"}

ConvertOptions ==
    {[flags |-> {w_opt_i, w_opt_input_codec}, dest |-> "input_codec",
      choices |-> ConvertInputCodecChoices],
     [flags |-> {w_opt_o, w_opt_output_codec}, dest |-> "output_codec",
      choices |-> ConvertOutputCodecChoices]}

PickleOptions ==
    {[flags |-> {w_opt_c, w_opt_codec}, dest |-> "codec", choices |-> PickleCodecChoices]}

CompileOptions ==
    {[flags |-> {w_opt_i, w_opt_input_codec}, dest |-> "input_codec",
      choices |-> CompileInputCodecChoices],
     [flags |-> {w_opt_o, w_opt_output_codec}, dest |-> "output_codec",
      choices |-> CompileOutputCodecChoices]}

NoOptions == {}

Scanned(values) == [error |-> FALSE, values |-> values, positionals |-> <<>>]

ScanError == [error |-> TRUE, values |-> [d \in Dests |-> <<>>], positionals |-> <<>>]

RECURSIVE ScanArgs(_, _, _)
\* one pass over the words: an option takes the next word, which must be one
\* of its choices; any other word starting with "-" (but "-" itself) is an
\* unrecognized argument; the rest are positional
ScanArgs(words, options, acc) ==
    IF words = <<>> THEN acc
    ELSE LET w == Head(words)
         IN IF \E o \in options : w \in o.flags
            THEN LET o == CHOOSE o \in options : w \in o.flags
                 IN IF Len(words) < 2 THEN ScanError
                    ELSE IF words[2] \notin o.choices THEN ScanError
                    ELSE ScanArgs(SubSeq(words, 3, Len(words)), options,
                                  [acc EXCEPT !.values[o.dest] = words[2]])
            ELSE IF StartsWith(w, w_dash) /\ Len(w) > 1 THEN ScanError
            ELSE ScanArgs(Tail(words), options,
                          [acc EXCEPT !.positionals = Append(@, w)])

NoArgs ==
    [ok |-> FALSE, debug |-> FALSE, subcommand |-> <<>>, input_codec |-> <<>>,
     output_codec |-> <<>>, codec |-> <<>>, specification |-> <<>>, type |-> <<>>,
     hexstring |-> <<>>, outfile |-> <<>>]

\* all but the last n items
ButLast(s, n) == SubSeq(s, 1, Len(s) - n)

\* the subparser of one subcommand on the words after it
ParseSubcommand(cmd, words, debug) ==
    LET options == IF cmd = w_convert THEN ConvertOptions
                   ELSE IF cmd = w_pickle THEN PickleOptions ELSE NoOptions
        defaults == [d \in Dests |->
                        IF cmd = w_convert /\ d = "input_codec" THEN w_ber
                        ELSE IF cmd = w_convert /\ d = "output_codec" THEN w_gser
                        ELSE IF cmd = w_pickle /\ d = "codec" THEN w_ber ELSE <<>>]
        scan == ScanArgs(words, options, Scanned(defaults))
        pos == scan.positionals
        n == Len(pos)
        base == [NoArgs EXCEPT !.ok = TRUE, !.debug = debug, !.subcommand = cmd,
                               !.input_codec = scan.values["input_codec"],
                               !.output_codec = scan.values["output_codec"],
                               !.codec = scan.values["codec"]]
    IN IF scan.error THEN NoArgs
       ELSE IF cmd = w_convert
       THEN (IF n < 3 THEN NoArgs
             ELSE [base EXCEPT !.specification = ButLast(pos, 2), !.type = pos[n - 1],
                               !.hexstring = pos[n]])
       ELSE IF cmd = w_shell
       THEN (IF n # 0 THEN NoArgs ELSE base)
       ELSE (IF n < 2 THEN NoArgs
             ELSE [base EXCEPT !.specification = ButLast(pos, 1), !.outfile = pos[n]])

RECURSIVE ParseMainArgs(_, _)
\* parser.parse_args() of _main: -d/--debug, then the required subcommand
ParseMainArgs(words, debug) ==
    IF words = <<>> THEN NoArgs
    ELSE IF Head(words) \in {w_opt_d, w_opt_debug} THEN ParseMainArgs(Tail(words), TRUE)
    ELSE IF Head(words) \notin Subcommands THEN NoArgs
    ELSE ParseSubcommand(Head(words), Tail(words), debug)

\* the parser of the shell's compile command on line.split()[1:]
ParseCompileArgs(words) ==
    LET defaults == [d \in Dests |->
                        IF d = "input_codec" THEN w_ber
                        ELSE IF d = "output_codec" THEN w_gser ELSE <<>>]
        scan == ScanArgs(words, CompileOptions, Scanned(defaults))
    IN IF scan.error \/ Len(scan.positionals) < 1 THEN NoArgs
       ELSE [NoArgs EXCEPT !.ok = TRUE, !.subcommand = w_compile,
                           !.input_codec = scan.values["input_codec"],
                           !.output_codec = scan.values["output_codec"],
                           !.specification = scan.positionals]

\* the parser of the shell's convert command on line.split()[1:]
ParseConvertArgs(words) ==
    LET scan == ScanArgs(words, NoOptions, Scanned([d \in Dests |-> <<>>]))
    IN IF scan.error \/ Len(scan.positionals) # 2 THEN NoArgs
       ELSE [NoArgs EXCEPT !.ok = TRUE, !.subcommand = w_convert,
                           !.type = scan.positionals[1], !.hexstring = scan.positionals[2]]

(***************************************************************************)
(* The file system and the package's parser, compiler and codecs.          *)
(*                                                                         *)
(* A parsed dictionary, a compiled specification and None are records of   *)
(* one shape: a dictionary holds the ASN.1 files it was parsed from, a     *)
(* compiled specification those files and its codec.                       *)
(***************************************************************************)
None == [kind |-> "None", sources |-> <<>>, error |-> "", codec |-> <<>>]

Dict(sources, error) == [kind |-> "dict", sources |-> sources, error |-> error, codec |-> <<>>]

Specification(sources, codec) ==
    [kind |-> "spec", sources |-> sources, error |-> "", codec |-> codec]

\* what each file holds: ASN.1 text (sound, with a syntax error, or with a
\* reference that does not resolve), a module written by the parse
\* subcommand, or a specification written by the pickle subcommand
FileContent(path) ==
    CASE path \in {w_foo_asn, w_bar_asn} ->
            [kind |-> "asn1", sources |-> <<>>, error |-> "", codec |-> <<>>]
      [] path = w_syntax_asn ->
            [kind |-> "asn1", sources |-> <<>>, error |-> "ParseError", codec |-> <<>>]
      [] path = w_unresolved_asn ->
            [kind |-> "asn1", sources |-> <<>>, error |-> "CompileError", codec |-> <<>>]
      [] path = w_foo_py ->
            [kind |-> "py", sources |-> <<w_foo_asn>>, error |-> "", codec |-> <<>>]
      [] path = w_bar_py ->
            [kind |-> "py", sources |-> <<w_bar_asn>>, error |-> "", codec |-> <<>>]
      [] path = w_foo_ber_pkl ->
            [kind |-> "pkl", sources |-> <<w_foo_asn>>, error |-> "", codec |-> w_ber]
      [] path = w_foo_uper_pkl ->
            [kind |-> "pkl", sources |-> <<w_foo_asn>>, error |-> "", codec |-> w_uper]
      [] path = w_bar_jer_pkl ->
            [kind |-> "pkl", sources |-> <<w_bar_asn>>, error |-> "", codec |-> w_jer]
      [] OTHER -> [kind |-> "absent", sources |-> <<>>, error |-> "", codec |-> <<>>]

Call(fn, on, codec) == [fn |-> fn, on |-> on, codec |-> codec]

\* what a call returned, or the exception it raised
Ok(value) == [exc |-> "", value |-> value]

Raise(exc) == [exc |-> exc, value |-> None]

\* parser.parse_files(specs): ParseError unless every file is ASN.1 text
\* that parses
parse_files(specs) ==
    IF \E i \in 1..Len(specs) : FileContent(specs[i]).kind = "absent" THEN Raise("IOError")
    ELSE IF \E i \in 1..Len(specs) :
                FileContent(specs[i]).kind # "asn1" \/ FileContent(specs[i]).error = "ParseError"
    THEN Raise("ParseError")
    ELSE Ok(Dict(specs, IF \E i \in 1..Len(specs) : FileContent(specs[i]).error = "CompileError"
                        THEN "CompileError" ELSE ""))

\* compiler.compile_dict(parsed, codec)
compile_dict(parsed, codec) ==
    IF parsed.error = "CompileError" THEN Raise("CompileError")
    ELSE Ok(Specification(parsed.sources, codec))

\* compiler.compile_files(specs, codec)
compile_files(specs, codec) ==
    IF parse_files(specs).exc # "" THEN parse_files(specs)
    ELSE compile_dict(parse_files(specs).value, codec)

\* _import_module(pyfilepath).SPECIFICATION: importlib finds a loader only
\* for a Python source file
import_module(pyfilepath) ==
    IF ~EndsWith(pyfilepath, w_suffix_py) THEN Raise("AttributeError")
    ELSE IF FileContent(pyfilepath).kind # "py" THEN Raise("IOError")
    ELSE Ok(Dict(FileContent(pyfilepath).sources, ""))

\* pickle.load(open(path, 'rb'))
pickle_load(path) ==
    IF FileContent(path).kind = "absent" THEN Raise("IOError")
    ELSE IF FileContent(path).kind # "pkl" THEN Raise("UnpicklingError")
    ELSE Ok(Specification(FileContent(path).sources, FileContent(path).codec))

\* [spec.endswith(suffix) for spec in specs].count(True)
CountSuffix(specs, suffix) == Cardinality({i \in 1..Len(specs) : EndsWith(specs[i], suffix)})

Compiled(exc, ispec, ospec, cs) ==
    [exc |-> exc, input_spec |-> ispec, output_spec |-> ospec, calls |-> cs]

\* _compile_files(specs, input_codec, output_codec): the two specifications
\* or the exception raised, with the calls made
CompileFiles(specs, icodec, ocodec) ==
    LET py_count == CountSuffix(specs, w_suffix_py)
        pkl_count == CountSuffix(specs, w_suffix_pkl)
        FromParsed(parsed, before) ==
            LET c1 == compile_dict(parsed, icodec)
                c2 == compile_dict(parsed, ocodec)
                call1 == Call("compile_dict", parsed.sources, icodec)
                call2 == Call("compile_dict", parsed.sources, ocodec)
            IN IF c1.exc # "" THEN Compiled(c1.exc, None, None, before \o <<call1>>)
               ELSE IF c2.exc # "" THEN Compiled(c2.exc, None, None, before \o <<call1, call2>>)
               ELSE Compiled("", c1.value, c2.value, before \o <<call1, call2>>)
    IN IF py_count > 0
       THEN IF py_count # 1 THEN Compiled("Exception", None, None, <<>>)
            ELSE LET module == import_module(specs[1])
                     call == Call("_import_module", <<specs[1]>>, <<>>)
                 IN IF module.exc # "" THEN Compiled(module.exc, None, None, <<call>>)
                    ELSE FromParsed(module.value, <<call>>)
       ELSE IF pkl_count > 0
       THEN IF pkl_count # 2 THEN Compiled("Exception", None, None, <<>>)
            ELSE LET ispec == pickle_load(specs[1])
                     ospec == pickle_load(specs[2])
                     call1 == Call("pickle.load", <<specs[1]>>, <<>>)
                     call2 == Call("pickle.load", <<specs[2]>>, <<>>)
                 IN IF ispec.exc # "" THEN Compiled(ispec.exc, None, None, <<call1>>)
                    ELSE IF ospec.exc # "" THEN Compiled(ospec.exc, None, None, <<call1, call2>>)
                    ELSE Compiled("", ispec.value, ospec.value, <<call1, call2>>)
       ELSE LET parsed == parse_files(specs)
                call == Call("parse_files", specs, <<>>)
            IN IF parsed.exc # "" THEN Compiled(parsed.exc, None, None, <<call>>)
               ELSE FromParsed(parsed.value, <<call>>)

(***************************************************************************)
(* _convert_hexstring                                                      *)
(***************************************************************************)
HexDigits == {"0", "1", "2", "3", "4", "5", "6", "7", "8", "9",
              "a", "b", "c", "d", "e", "f", "A", "B", "C", "D", "E", "F"}

\* binascii.unhexlify succeeds on an even number of hexadecimal digits
IsHex(hexstring) ==
    Len(hexstring) % 2 = 0 /\ \A i \in 1..Len(hexstring) : hexstring[i] \in HexDigits

\* the codecs: an encoding that starts with 30 decodes, one that starts with
\* 01 decodes to a value the output codec cannot encode, and anything else
\* does not decode
DecodeOutcome(hexstring) ==
    IF SubSeq(hexstring, 1, 2) \in {<<"3", "0">>, <<"0", "1">>} THEN "" ELSE "DecodeError"

EncodeOutcome(hexstring) ==
    IF SubSeq(hexstring, 1, 2) = <<"0", "1">> THEN "EncodeError" ELSE ""

TextCodecs == {w_gser, w_xer, w_jer}

Printed(kind, text, codec, form) == [kind |-> kind, text |-> text, codec |-> codec, form |-> form]

Converted(exc, printed, cs) == [exc |-> exc, printed |-> printed, calls |-> cs]

\* _convert_hexstring(...): what it prints, or the exception it raises
ConvertHexstring(ispec, ospec, codec, type, hexstring) ==
    LET decode == Call("decode", <<type, hexstring>>, ispec.codec)
        encode == Call("encode", <<type, hexstring>>, ospec.codec)
    IN IF ~IsHex(hexstring) THEN Converted("TypeError", <<>>, <<>>)
       ELSE IF DecodeOutcome(hexstring) # ""
       THEN Converted(DecodeOutcome(hexstring), <<>>, <<decode>>)
       ELSE IF EncodeOutcome(hexstring) # ""
       THEN Converted(EncodeOutcome(hexstring), <<>>, <<decode, encode>>)
       ELSE Converted("",
                      <<Printed("encoded", hexstring, ospec.codec,
                                IF codec \in TextCodecs THEN "text" ELSE "hex")>>,
                      <<decode, encode>>)

(***************************************************************************)
(* The command line process: _main, _do_convert, _do_shell, _do_parse,     *)
(* _do_pickle                                                              *)
(***************************************************************************)
MaxLines == 3

MaxCommands == 3

\* the lines standard input may deliver to convert
StdinLines == {w_stdin_3000, w_stdin_ff, w_stdin_zz, w_stdin_empty, w_stdin_0101,
               w_stdin_3000_eof}

\* standard input: up to MaxLines lines, each but the last ended by a newline
StdinInputs ==
    {s \in UNION {[1..n -> StdinLines] : n \in 0..MaxLines} :
        \A i \in 1..(Len(s) - 1) : EndsWith(s[i], <<"\n">>)}

\* the lines the user may type at the shell's prompt
ShellLines == {w_line_compile_foo, w_line_compile_uper_jer, w_line_compile_gser_in,
               w_line_compile_syntax, w_line_compile_unresolved,
               w_line_convert_3000, w_line_convert_zz, w_line_convert_ff,
               w_line_convert_0101, w_line_convert_Foo,
               w_line_help, w_line_exit, w_line_blank, w_line_quit}

Last(s) == s[Len(s)]

Exc(type, site) == [type |-> type, site |-> site]

\* the log of raised exceptions after a step that raised exc ("" for none)
Raising(exc, site) == IF exc = "" THEN raised ELSE Append(raised, Exc(exc, site))

\* FuncExit with the exception only reported: the process ends with status 0
FuncExitReported(exc, debug) == 0

\* the status the process ends with when args.func(args) raised exc ("" when
\* it returned): with --debug the exception is uncaught and the interpreter
\* ends with status 1; otherwise sys.exit('error: ...') ends it with status 1
FuncExit(exc, debug) == IF exc = "" THEN 0 ELSE 1

\* StdinHandled without the handler for DecodeError
StdinHandledTypeErrorOnly == {"TypeError"}

\* the exceptions the loop over standard input handles itself
StdinHandled == {"TypeError", "DecodeError"}

Message(kind) == Printed(kind, <<>>, <<>>, "")

\* print(hexstring)
Echo(hexstring) == Printed("line", hexstring, <<>>, "")

\* print(str(e)) / print('error: {}'.format(str(e)))
ErrorText(kind, exc) == Printed(kind, <<>>, <<>>, exc)

NoSpecMessage ==
    "No compiled specification found. Please use the 'compile' command to compile one."

\* args = parser.parse_args(): argparse ends the process with status 2 on a
\* command line it does not accept
ParseArgs ==
    /\ pc = "parse_args"
    /\ args' = ParseMainArgs(argv, FALSE)
    /\ IF args'.ok
       THEN pc' = "func" /\ exitStatus' = exitStatus
       ELSE pc' = "exited" /\ exitStatus' = 2
    /\ UNCHANGED <<argv, stdin, input_spec, output_spec, output_codec, consumed, stdout, raised,
                   calls>>
    /\ UNCHANGED timeVars

\* _do_convert up to the first read of standard input, or to its end when
\* the hexstring is given on the command line
DoConvert ==
    /\ pc = "func"
    /\ args.subcommand = w_convert
    /\ LET c == CompileFiles(args.specification, args.input_codec, args.output_codec)
           v == ConvertHexstring(c.input_spec, c.output_spec, args.output_codec,
                                 args.type, args.hexstring)
       IN IF c.exc # ""
          THEN /\ pc' = "exited"
               /\ exitStatus' = FuncExit(c.exc, args.debug)
               /\ raised' = Raising(c.exc, "_compile_files")
               /\ calls' = c.calls
               /\ UNCHANGED <<input_spec, output_spec, stdout>>
          ELSE IF args.hexstring = w_dash
          THEN /\ pc' = "stdin"
               /\ input_spec' = c.input_spec
               /\ output_spec' = c.output_spec
               /\ calls' = c.calls
               /\ UNCHANGED <<exitStatus, raised, stdout>>
          ELSE /\ pc' = "exited"
               /\ input_spec' = c.input_spec
               /\ output_spec' = c.output_spec
               /\ exitStatus' = FuncExit(v.exc, args.debug)
               /\ raised' = Raising(v.exc, "_convert_hexstring")
               /\ stdout' = stdout \o v.printed
               /\ calls' = c.calls \o v.calls
    /\ UNCHANGED <<argv, stdin, args, output_codec, consumed>>
    /\ UNCHANGED timeVars

\* for hexstring in sys.stdin: the next line is read
ReadLine ==
    /\ pc = "stdin"
    /\ stdin # <<>>
    /\ consumed' = Append(consumed, Head(stdin))
    /\ stdin' = Tail(stdin)
    /\ pc' = "line"
    /\ UNCHANGED <<argv, args, input_spec, output_spec, output_codec, stdout, exitStatus,
                   raised, calls>>
    /\ UNCHANGED timeVars

\* for hexstring in sys.stdin: end of input, _do_convert returns
StdinEOF ==
    /\ pc = "stdin"
    /\ stdin = <<>>
    /\ pc' = "exited"
    /\ exitStatus' = FuncExit("", args.debug)
    /\ calls' = <<>>
    /\ UNCHANGED <<argv, stdin, args, input_spec, output_spec, output_codec, consumed, stdout,
                   raised>>
    /\ UNCHANGED timeVars

\* the body of the loop over standard input
HandleLine ==
    /\ pc = "line"
    /\ LET hexstring == Strip(consumed[Len(consumed)], {"\r", "\n"})
           v == ConvertHexstring(input_spec, output_spec, args.output_codec, args.type,
                                 hexstring)
       IN IF hexstring # <<>>
          THEN /\ calls' = v.calls
               /\ raised' = Raising(v.exc, "stdin line")
               /\ IF v.exc = "" \/ v.exc \in StdinHandled
                  THEN /\ pc' = "stdin"
                       /\ exitStatus' = exitStatus
                       /\ stdout' = stdout \o
                              (IF v.exc = "" THEN v.printed
                               ELSE IF v.exc = "TypeError" THEN <<Echo(hexstring)>>
                               ELSE <<Echo(hexstring), ErrorText("str(e)", v.exc)>>)
                  ELSE /\ pc' = "exited"
                       /\ exitStatus' = FuncExit(v.exc, args.debug)
                       /\ stdout' = stdout
          ELSE /\ pc' = "stdin"
               /\ stdout' = Append(stdout, Echo(hexstring))
               /\ calls' = <<>>
               /\ UNCHANGED <<exitStatus, raised>>
    /\ UNCHANGED <<argv, stdin, args, input_spec, output_spec, output_codec, consumed>>
    /\ UNCHANGED timeVars

\* _do_shell up to its first prompt
DoShell ==
    /\ pc = "func"
    /\ args.subcommand = w_shell
    /\ input_spec' = None
    /\ output_spec' = None
    /\ output_codec' = <<>>
    /\ stdout' = Append(stdout, Message("Welcome to the asn1tools shell!"))
    /\ pc' = "prompt"
    /\ UNCHANGED <<argv, stdin, args, consumed, exitStatus, raised, calls>>
    /\ UNCHANGED timeVars

\* session.prompt raises EOFError: _do_shell returns
ShellEOF ==
    /\ pc = "prompt"
    /\ pc' = "exited"
    /\ exitStatus' = FuncExit("", args.debug)
    /\ calls' = <<>>
    /\ UNCHANGED <<argv, stdin, args, input_spec, output_spec, output_codec, consumed, stdout,
                   raised>>
    /\ UNCHANGED timeVars

\* a line is typed at the prompt
Typed(raw) ==
    /\ pc = "prompt"
    /\ Len(consumed) < MaxCommands
    /\ consumed' = Append(consumed, raw)

\* _handle_command_compile(line): the three values it returns, what it
\* prints and raises inside
HandleCommandCompile(line) ==
    LET a == ParseCompileArgs(Tail(Split(line)))
        c == CompileFiles(a.specification, a.input_codec, a.output_codec)
    IN IF ~a.ok
       THEN [input_spec |-> None, output_spec |-> None, output_codec |-> <<>>,
             printed |-> <<Message("usage: compile")>>, exc |-> "ArgumentParserError",
             calls |-> <<>>]
       ELSE IF c.exc # ""
       THEN [input_spec |-> None, output_spec |-> None, output_codec |-> <<>>,
             printed |-> <<ErrorText("error: str(e)", c.exc)>>, exc |-> c.exc,
             calls |-> c.calls]
       ELSE [input_spec |-> c.input_spec, output_spec |-> c.output_spec,
             output_codec |-> a.output_codec, printed |-> <<>>, exc |-> "",
             calls |-> c.calls]

\* the shell's compile command, the line drawn from lines
ShellCompileOn(lines) ==
    \E raw \in lines :
        LET line == Strip(raw, Whitespace)
            r == HandleCommandCompile(line)
        IN /\ Typed(raw)
           /\ line # <<>>
           /\ StartsWith(line, w_compile)
           /\ input_spec' = r.input_spec
           /\ output_spec' = r.output_spec
           /\ output_codec' = r.output_codec
           /\ stdout' = stdout \o r.printed
           /\ raised' = Raising(r.exc, "shell compile")
           /\ calls' = r.calls
           /\ pc' = "prompt"
           /\ UNCHANGED <<argv, stdin, args, exitStatus>>
           /\ UNCHANGED timeVars

ShellCompile == ShellCompileOn(ShellLines)

\* HandleCommandConvert without the test of input_spec
HandleCommandConvertUnguarded(line, ispec, ospec, ocodec) ==
    LET a == ParseConvertArgs(Tail(Split(line)))
        v == ConvertHexstring(ispec, ospec, ocodec, a.type, a.hexstring)
    IN IF ~a.ok
       THEN [printed |-> <<Printed("usage: convert", <<>>, <<>>, "")>>,
             exc |-> "ArgumentParserError", calls |-> <<>>]
       ELSE IF v.exc # ""
       THEN [printed |-> <<Printed("error: str(e)", <<>>, <<>>, v.exc)>>, exc |-> v.exc,
             calls |-> v.calls]
       ELSE [printed |-> v.printed, exc |-> "", calls |-> v.calls]

\* _handle_command_convert(line, input_spec, output_spec, output_codec):
\* what it prints and raises inside
HandleCommandConvert(line, ispec, ospec, ocodec) ==
    LET a == ParseConvertArgs(Tail(Split(line)))
        v == ConvertHexstring(ispec, ospec, ocodec, a.type, a.hexstring)
    IN IF ispec = None
       THEN [printed |-> <<Message(NoSpecMessage)>>, exc |-> "", calls |-> <<>>]
       ELSE IF ~a.ok
       THEN [printed |-> <<Message("usage: convert")>>, exc |-> "ArgumentParserError",
             calls |-> <<>>]
       ELSE IF v.exc # ""
       THEN [printed |-> <<ErrorText("error: str(e)", v.exc)>>, exc |-> v.exc,
             calls |-> v.calls]
       ELSE [printed |-> v.printed, exc |-> "", calls |-> v.calls]

\* the shell's convert command
ShellConvert ==
    \E raw \in ShellLines :
        LET line == Strip(raw, Whitespace)
            r == HandleCommandConvert(line, input_spec, output_spec, output_codec)
        IN /\ Typed(raw)
           /\ line # <<>>
           /\ ~StartsWith(line, w_compile)
           /\ StartsWith(line, w_convert)
           /\ stdout' = stdout \o r.printed
           /\ raised' = Raising(r.exc, "shell convert")
           /\ calls' = r.calls
           /\ pc' = "prompt"
           /\ UNCHANGED <<argv, stdin, args, input_spec, output_spec, output_codec, exitStatus>>
           /\ UNCHANGED timeVars

\* the shell's help command
ShellHelp ==
    \E raw \in ShellLines :
        /\ Typed(raw)
        /\ Strip(raw, Whitespace) = w_help
        /\ stdout' = stdout \o <<Message("Commands:"), Message("  compile"),
                                 Message("  convert"), Message("  exit"), Message("  help")>>
        /\ calls' = <<>>
        /\ pc' = "prompt"
        /\ UNCHANGED <<argv, stdin, args, input_spec, output_spec, output_codec, exitStatus, raised>>
        /\ UNCHANGED timeVars

\* the shell's exit command: _do_shell returns
ShellExit ==
    \E raw \in ShellLines :
        /\ Typed(raw)
        /\ Strip(raw, Whitespace) = w_exit
        /\ pc' = "exited"
        /\ exitStatus' = FuncExit("", args.debug)
        /\ calls' = <<>>
        /\ UNCHANGED <<argv, stdin, args, input_spec, output_spec, output_codec, stdout, raised>>
        /\ UNCHANGED timeVars

\* an empty line, or a line that is no command
ShellOther ==
    \E raw \in ShellLines :
        LET line == Strip(raw, Whitespace)
        IN /\ Typed(raw)
           /\ ~StartsWith(line, w_compile)
           /\ ~StartsWith(line, w_convert)
           /\ line \notin {w_help, w_exit}
           /\ stdout' = IF line = <<>> THEN stdout
                        ELSE Append(stdout, Printed("command not found", line, <<>>, ""))
           /\ calls' = <<>>
           /\ pc' = "prompt"
           /\ UNCHANGED <<argv, stdin, args, input_spec, output_spec, output_codec, exitStatus,
                          raised>>
           /\ UNCHANGED timeVars

\* _do_parse
DoParse ==
    /\ pc = "func"
    /\ args.subcommand = w_parse
    /\ LET parsed == parse_files(args.specification)
       IN /\ raised' = Raising(parsed.exc, "_do_parse")
          /\ exitStatus' = FuncExit(parsed.exc, args.debug)
          /\ calls' = <<Call("parse_files", args.specification, <<>>)>>
                      \o (IF parsed.exc = "" THEN <<Call("write", <<args.outfile>>, <<>>)>>
                          ELSE <<>>)
    /\ pc' = "exited"
    /\ UNCHANGED <<argv, stdin, args, input_spec, output_spec, output_codec, consumed, stdout>>
    /\ UNCHANGED timeVars

\* _do_pickle
DoPickle ==
    /\ pc = "func"
    /\ args.subcommand = w_pickle
    /\ LET compiled == compile_files(args.specification, args.codec)
       IN /\ raised' = Raising(compiled.exc, "_do_pickle")
          /\ exitStatus' = FuncExit(compiled.exc, args.debug)
          /\ calls' = <<Call("compile_files", args.specification, args.codec)>>
                      \o (IF compiled.exc = "" THEN <<Call("pickle.dump", <<args.outfile>>, <<>>)>>
                          ELSE <<>>)
    /\ pc' = "exited"
    /\ UNCHANGED <<argv, stdin, args, input_spec, output_spec, output_codec, consumed, stdout>>
    /\ UNCHANGED timeVars

(***************************************************************************)
(* The command lines the process is started with                           *)
(***************************************************************************)
DebugWords == {<<>>, <<w_opt_d>>}

RunSpecifications ==
    {<<w_foo_asn>>, <<w_syntax_asn>>, <<w_unresolved_asn>>, <<w_foo_py>>,
     <<w_foo_ber_pkl, w_foo_uper_pkl>>, <<w_foo_asn, w_foo_py>>}

RunHexstrings == {w_dash, w_hex_3000, w_hex_ff, w_hex_zz, w_hex_0101}

RunArgvs ==
    {d \o <<w_convert>> \o o \o s \o <<w_Foo, h>> :
        d \in DebugWords, o \in {<<>>, <<w_opt_o, w_der>>}, s \in RunSpecifications,
        h \in RunHexstrings}
    \cup {d \o rest : d \in DebugWords,
                      rest \in {<<w_shell>>,
                                <<w_parse, w_foo_asn, w_out_py>>,
                                <<w_parse, w_syntax_asn, w_out_py>>,
                                <<w_pickle, w_foo_asn, w_out_pkl>>,
                                <<w_pickle, w_opt_c, w_uper, w_unresolved_asn, w_out_pkl>>,
                                <<w_pickle, w_syntax_asn, w_out_pkl>>,
                                <<w_compile, w_foo_asn>>,
                                <<w_convert, w_opt_i, w_gser, w_foo_asn, w_Foo, w_hex_3000>>,
                                <<>>}}

TimeIdle ==
    /\ tpc = "idle"
    /\ date = NoDate
    /\ string = <<>>
    /\ decoded = NotRun
    /\ libcPadsYear = TRUE

CliStart ==
    /\ consumed = <<>>
    /\ args = NoArgs
    /\ input_spec = None
    /\ output_spec = None
    /\ output_codec = <<>>
    /\ stdout = <<>>
    /\ exitStatus = 0
    /\ raised = <<>>
    /\ calls = <<>>

Init ==
    /\ pc = "parse_args"
    /\ argv \in RunArgvs
    /\ stdin \in IF argv # <<>> /\ Last(argv) = w_dash THEN StdinInputs ELSE {<<>>}
    /\ CliStart
    /\ TimeIdle

Next ==
    \/ ParseArgs
    \/ DoConvert
    \/ ReadLine
    \/ StdinEOF
    \/ HandleLine
    \/ DoShell
    \/ ShellEOF
    \/ ShellCompile
    \/ ShellConvert
    \/ ShellHelp
    \/ ShellExit
    \/ ShellOther
    \/ DoParse
    \/ DoPickle

Spec == Init /\ [][Next]_vars

(***************************************************************************)
(* _compile_files on its own: every list of up to MaxSpecs files           *)
(***************************************************************************)
MaxSpecs == 3

SpecFiles == {w_foo_asn, w_syntax_asn, w_unresolved_asn, w_foo_py, w_bar_py,
              w_foo_ber_pkl, w_foo_uper_pkl, w_bar_jer_pkl}

SpecLists == UNION {[1..n -> SpecFiles] : n \in 1..MaxSpecs}

CompileInputs ==
    {[NoArgs EXCEPT !.ok = TRUE, !.subcommand = w_convert, !.specification = s,
                    !.input_codec = c[1], !.output_codec = c[2], !.type = w_Foo,
                    !.hexstring = w_hex_3000] :
        s \in SpecLists, c \in {<<w_ber, w_gser>>, <<w_uper, w_der>>}}

CompileInit ==
    /\ pc = "compile_files"
    /\ argv = <<>>
    /\ args \in CompileInputs
    /\ input_spec = None
    /\ output_spec = None
    /\ output_codec = <<>>
    /\ stdin = <<>>
    /\ consumed = <<>>
    /\ stdout = <<>>
    /\ exitStatus = 0
    /\ raised = <<>>
    /\ calls = <<>>
    /\ TimeIdle

\* input_spec, output_spec = _compile_files(args.specification, ...)
CompileFilesCall ==
    /\ pc = "compile_files"
    /\ LET c == CompileFiles(args.specification, args.input_codec, args.output_codec)
       IN /\ input_spec' = c.input_spec
          /\ output_spec' = c.output_spec
          /\ raised' = Raising(c.exc, "_compile_files")
          /\ calls' = c.calls
    /\ pc' = "compiled"
    /\ UNCHANGED <<argv, stdin, args, output_codec, consumed, stdout, exitStatus>>
    /\ UNCHANGED timeVars

CompileNext == CompileFilesCall

CompileSpec == CompileInit /\ [][CompileNext]_vars

(***************************************************************************)
(* The argument parsers on their own: the main parser on a wide set of     *)
(* command lines, and the shell's compile command on a wide set of lines   *)
(***************************************************************************)
CodecWords == {w_ber, w_der, w_per, w_uper, w_xer, w_jer, w_gser, w_oer, w_BER}

CodecFlags == {w_opt_i, w_opt_input_codec, w_opt_o, w_opt_output_codec, w_opt_c,
               w_opt_codec}

OptionSamples ==
    {<<>>} \cup {<<f, v>> : f \in CodecFlags, v \in CodecWords}
           \cup {<<w_opt_i, v[1], w_opt_o, v[2]>> : v \in CodecWords \X CodecWords}

PositionalSamples == {<<w_foo_asn, w_Foo, w_hex_3000>>, <<w_foo_asn, w_out_py>>, <<>>}

ArgvSamples ==
    {d \o c \o o \o p :
        d \in {<<>>, <<w_opt_d>>, <<w_opt_debug>>},
        c \in {<<w_convert>>, <<w_shell>>, <<w_parse>>, <<w_pickle>>, <<w_compile>>, <<>>},
        o \in OptionSamples, p \in PositionalSamples}

RECURSIVE Join(_)
\* ' '.join(words)
Join(words) ==
    IF Len(words) = 0 THEN <<>>
    ELSE IF Len(words) = 1 THEN words[1]
    ELSE words[1] \o <<" ">> \o Join(Tail(words))

CompileLines ==
    {Join(<<w_compile>> \o o \o p) : o \in OptionSamples, p \in {<<w_foo_asn>>, <<>>}}

ArgsInit ==
    /\ \/ pc = "parse_args" /\ argv \in ArgvSamples
       \/ pc = "prompt" /\ argv = <<w_shell>>
    /\ args = IF pc = "prompt" THEN ParseMainArgs(argv, FALSE) ELSE NoArgs
    /\ input_spec = None
    /\ output_spec = None
    /\ output_codec = <<>>
    /\ stdin = <<>>
    /\ consumed = <<>>
    /\ stdout = <<>>
    /\ exitStatus = 0
    /\ raised = <<>>
    /\ calls = <<>>
    /\ TimeIdle

\* the shell's compile command on the first line typed
FirstCompile == consumed = <<>> /\ ShellCompileOn(CompileLines)

ArgsNext ==
    \/ ParseArgs
    \/ FirstCompile

ArgsSpec == ArgsInit /\ [][ArgsNext]_vars

(***************************************************************************)
(* The time helpers as a state machine: a datetime is formatted and the    *)
(* string parsed back, or a string is handed to utc_time_to_datetime.      *)
(***************************************************************************)
CliIdle ==
    /\ pc = "idle"
    /\ argv = <<>>
    /\ stdin = <<>>
    /\ CliStart

TimeInit ==
    /\ CliIdle
    /\ libcPadsYear \in BOOLEAN
    /\ decoded = NotRun
    /\ \/ tpc = "datetime" /\ date \in Dates /\ string = <<>>
       \/ tpc = "string" /\ date = NoDate /\ string \in RawStrings /\ libcPadsYear

UtcTimeFromDatetime ==
    /\ tpc = "datetime"
    /\ string' = utc_time_from_datetime(date)
    /\ tpc' = "utc_string"
    /\ UNCHANGED <<date, decoded, libcPadsYear>>
    /\ UNCHANGED cliVars

UtcTimeToDatetime ==
    /\ tpc \in {"utc_string", "string"}
    /\ decoded' = utc_time_to_datetime(string)
    /\ tpc' = IF tpc = "string" THEN "string_done" ELSE "utc_done"
    /\ UNCHANGED <<date, string, libcPadsYear>>
    /\ UNCHANGED cliVars

GeneralizedTimeFromDatetime ==
    /\ tpc = "datetime"
    /\ string' = generalized_time_from_datetime(date)
    /\ tpc' = "generalized_string"
    /\ UNCHANGED <<date, decoded, libcPadsYear>>
    /\ UNCHANGED cliVars

GeneralizedTimeToDatetime ==
    /\ tpc = "generalized_string"
    /\ decoded' = generalized_time_to_datetime(string)
    /\ tpc' = "generalized_done"
    /\ UNCHANGED <<date, string, libcPadsYear>>
    /\ UNCHANGED cliVars

TimeNext ==
    \/ UtcTimeFromDatetime
    \/ UtcTimeToDatetime
    \/ GeneralizedTimeFromDatetime
    \/ GeneralizedTimeToDatetime

TimeSpec == TimeInit /\ [][TimeNext]_vars

(***************************************************************************)
(* Properties of the command line interface                                *)
(***************************************************************************)
CoreErrors == {"DecodeError", "EncodeError", "CompileError", "ParseError", "ConstraintsError"}

RaisedCore == {i \in 1..Len(raised) : raised[i].type \in CoreErrors}

\* an exception that leaves args.func(args): not one raised inside a shell
\* command, and not a TypeError or DecodeError raised for a line of standard
\* input
Escapes(e) ==
    /\ e.site \notin {"shell compile", "shell convert"}
    /\ ~(e.site = "stdin line" /\ e.type \in {"TypeError", "DecodeError"})

\* C1 as stated: whenever a core error (DecodeError, EncodeError,
\* CompileError, ParseError, ConstraintsError) was raised while a subcommand
\* ran, in any subcommand and either input mode of convert, the process ends
\* with a nonzero exit status.
C1_AnyCoreErrorExitsNonzero ==
    (pc = "exited" /\ RaisedCore # {}) => exitStatus # 0

\* C1 amended: a core error that leaves the subcommand's function (every core
\* error of parse, pickle and convert with a hexstring argument or in its
\* compile step, and in convert's '-' mode every core error but DecodeError)
\* ends the process with a nonzero status; a DecodeError for a line of
\* standard input and an error inside a shell command are caught and leave
\* the status alone, so that the process ends with a nonzero status exactly
\* when the command line was rejected or an exception left the function.
C1_EscapingCoreErrorExitsNonzero ==
    pc = "exited" =>
        /\ \A i \in RaisedCore : Escapes(raised[i]) => exitStatus # 0
        /\ (exitStatus # 0) <=> (~args.ok \/ \E i \in 1..Len(raised) : Escapes(raised[i]))

\* convert '-' ended with status 1 on an EncodeError for a line of standard input
C1_Witness ==
    /\ pc = "exited"
    /\ exitStatus = 1
    /\ \E i \in RaisedCore : raised[i] = Exc("EncodeError", "stdin line")
    /\ \E i \in RaisedCore : raised[i] = Exc("DecodeError", "stdin line")

StdinMode ==
    /\ args.ok
    /\ args.subcommand = w_convert
    /\ args.hexstring = w_dash
    /\ pc \in {"stdin", "line", "exited"}
    /\ input_spec # None

\* a line of standard input without its line end
Hexstring(raw) == Strip(raw, {"\r", "\n"})

NotHex(raw) == Hexstring(raw) # <<>> /\ ~IsHex(Hexstring(raw))

Undecodable(raw) ==
    Hexstring(raw) # <<>> /\ IsHex(Hexstring(raw)) /\ DecodeOutcome(Hexstring(raw)) # ""

Unencodable(raw) ==
    /\ Hexstring(raw) # <<>>
    /\ IsHex(Hexstring(raw))
    /\ DecodeOutcome(Hexstring(raw)) = ""
    /\ EncodeOutcome(Hexstring(raw)) # ""

\* what one line of standard input is to print
ExpectedOutput(raw) ==
    LET h == Hexstring(raw)
        line == [kind |-> "line", text |-> h, codec |-> <<>>, form |-> ""]
    IN IF h = <<>> \/ NotHex(raw) THEN <<line>>
       ELSE IF Undecodable(raw)
       THEN <<line, [kind |-> "str(e)", text |-> <<>>, codec |-> <<>>, form |-> "DecodeError"]>>
       ELSE IF Unencodable(raw) THEN <<>>
       ELSE <<[kind |-> "encoded", text |-> h, codec |-> output_spec.codec,
               form |-> IF args.output_codec \in {w_gser, w_xer, w_jer} THEN "text" ELSE "hex"]>>

RECURSIVE ExpectedOutputs(_)
ExpectedOutputs(lines) ==
    IF lines = <<>> THEN <<>>
    ELSE ExpectedOutputs(SubSeq(lines, 1, Len(lines) - 1)) \o ExpectedOutput(lines[Len(lines)])

\* C5: in convert with hexstring '-', the lines of standard input are handled
\* one at a time in input order, the output of each line printed before the
\* next line is read; a line that is not hexadecimal or does not decode is
\* echoed (a DecodeError followed by its text) and the loop goes on to every
\* later line; an empty line is echoed as an empty line.
C5_StdinLinesInOrder ==
    StdinMode =>
        /\ pc = "stdin" =>
              /\ stdout = ExpectedOutputs(consumed)
              /\ \A i \in 1..Len(consumed) : ~Unencodable(consumed[i])
        /\ pc = "line" => stdout = ExpectedOutputs(SubSeq(consumed, 1, Len(consumed) - 1))
        /\ pc = "exited" =>
              /\ stdout = ExpectedOutputs(consumed)
              /\ IF exitStatus = 0
                 THEN stdin = <<>> /\ \A i \in 1..Len(consumed) : ~Unencodable(consumed[i])
                 ELSE consumed # <<>> /\ Unencodable(consumed[Len(consumed)])

\* a line that is not hexadecimal, one that does not decode, an empty line
\* and then a line that converts, all handled
C5_Witness ==
    /\ StdinMode
    /\ pc = "exited"
    /\ exitStatus = 0
    /\ Len(consumed) = 3
    /\ NotHex(consumed[1])
    /\ Undecodable(consumed[2])
    /\ consumed[3] = w_stdin_3000
    /\ Len(stdout) = 4

ShellMode == args.ok /\ args.subcommand = w_shell /\ pc \in {"prompt", "exited"}

IsCompile(raw) == StartsWith(Strip(raw, Whitespace), w_compile)

IsConvert(raw) == ~IsCompile(raw) /\ StartsWith(Strip(raw, Whitespace), w_convert)

RECURSIVE LastCompile(_)
\* the most recent compile command among lines, <<>> when there is none
LastCompile(lines) ==
    IF lines = <<>> THEN <<>>
    ELSE IF IsCompile(lines[Len(lines)]) THEN Strip(lines[Len(lines)], Whitespace)
    ELSE LastCompile(SubSeq(lines, 1, Len(lines) - 1))

\* the most recent compile command of the session succeeded
LastCompileSucceeded ==
    LastCompile(consumed) # <<>> /\ HandleCommandCompile(LastCompile(consumed)).exc = ""

NoSpecPrinted ==
    [kind |-> "No compiled specification found. Please use the 'compile' command to compile one.",
     text |-> <<>>, codec |-> <<>>, form |-> ""]

\* a convert command with a type and a hexadecimal string
WellFormedConvert(raw) ==
    /\ IsConvert(raw)
    /\ Len(Split(Strip(raw, Whitespace))) = 3
    /\ IsHex(Split(Strip(raw, Whitespace))[3])

\* C8: in the shell a convert command decodes (and encodes what it decoded)
\* exactly when the most recent compile command succeeded; before any
\* compile, and after a failed compile even when an earlier one succeeded,
\* it only prints the 'No compiled specification found' message; the input
\* specification, output specification and output codec are all unset or
\* all set, by the most recent compile command.
C8_ConvertNeedsLastCompile ==
    ShellMode =>
        /\ IF LastCompileSucceeded
           THEN LET r == HandleCommandCompile(LastCompile(consumed))
                IN /\ input_spec = r.input_spec /\ input_spec # None
                   /\ output_spec = r.output_spec /\ output_spec # None
                   /\ output_codec = r.output_codec /\ output_codec # <<>>
           ELSE input_spec = None /\ output_spec = None /\ output_codec = <<>>
        /\ (pc = "prompt" /\ consumed # <<>> /\ IsConvert(consumed[Len(consumed)])) =>
              IF LastCompileSucceeded
              THEN /\ stdout[Len(stdout)] # NoSpecPrinted
                   /\ WellFormedConvert(consumed[Len(consumed)]) =>
                         /\ calls # <<>>
                         /\ calls[1].fn = "decode"
                         /\ calls[1].codec = input_spec.codec
                         /\ (Len(calls) = 2) <=>
                               ~Undecodable(Split(Strip(consumed[Len(consumed)], Whitespace))[3])
                         /\ Len(calls) = 2 =>
                               calls[2].fn = "encode" /\ calls[2].codec = output_spec.codec
              ELSE calls = <<>> /\ stdout[Len(stdout)] = NoSpecPrinted

\* a compile that succeeded, then one that failed, then a convert that is
\* answered with the message
C8_Witness ==
    /\ ShellMode
    /\ pc = "prompt"
    /\ Len(consumed) = 3
    /\ consumed[1] = w_line_compile_foo
    /\ consumed[2] = w_line_compile_syntax
    /\ consumed[3] = w_line_convert_3000
    /\ stdout[Len(stdout)] = NoSpecPrinted
    /\ calls = <<>>

\* a convert after a successful compile decodes with that compile's input codec
C8_WitnessConverted ==
    /\ ShellMode
    /\ pc = "prompt"
    /\ Len(consumed) = 2
    /\ consumed[1] = w_line_compile_uper_jer
    /\ consumed[2] = w_line_convert_3000
    /\ Len(calls) = 2
    /\ calls[1].codec = w_uper

(***************************************************************************)
(* Properties of the time conversion helpers                               *)
(***************************************************************************)
WholeMinuteOrNaive(d) == IF d.tz = NoTz THEN TRUE ELSE UtcOffset(d.tz) % 60 = 0

\* +HHMM / -HHMM for an offset of whole minutes
SignedHHMM(tz) ==
    LET o == UtcOffset(tz)
        a == IF o < 0 THEN -o ELSE o
    IN <<IF o < 0 THEN "-" ELSE "+">> \o Pad2(a \div 3600) \o Pad2((a % 3600) \div 60)

\* the last n characters of s
Suffix(s, n) == SubSeq(s, Len(s) - n + 1, Len(s))

SameStatus(a, b) == (a.tz = NoTz) <=> (b.tz = NoTz)

C6_Covered == date.year \in 1000..9999 /\ WholeMinuteOrNaive(date)

\* C6: for a datetime d of the years 1000..9999 that is naive, in UTC or at an
\* offset of whole minutes, generalized_time_to_datetime(
\* generalized_time_from_datetime(d)) equals d and is naive exactly when d is;
\* the string has no suffix for a naive d, 'Z' for UTC, +HHMM/-HHMM for any
\* other offset, and the fraction '.ffffff' exactly when d.microsecond > 0.
C6_GeneralizedRoundTrip ==
    (tpc \in {"generalized_string", "generalized_done"} /\ C6_Covered) =>
        LET suffix == IF date.tz = NoTz THEN <<>>
                      ELSE IF UtcOffset(date.tz) = 0 THEN <<"Z">>
                      ELSE SignedHHMM(date.tz)
            fraction == IF date.microsecond > 0 THEN <<".">> \o Pad6(date.microsecond) ELSE <<>>
        IN /\ Len(string) = 14 + Len(fraction) + Len(suffix)
           /\ SubSeq(string, 15, 14 + Len(fraction)) = fraction
           /\ Suffix(string, Len(suffix)) = suffix
           /\ \A i \in 1..14 : IsDigit(string[i])
           /\ tpc = "generalized_done" =>
                 /\ decoded.kind = "datetime"
                 /\ DatetimeEq(decoded.dt, date)
                 /\ SameStatus(decoded.dt, date)

\* a datetime with microseconds at a negative offset has made the round trip
C6_Witness ==
    /\ tpc = "generalized_done"
    /\ C6_Covered
    /\ date.microsecond > 0
    /\ date.tz # NoTz
    /\ UtcOffset(date.tz) < 0
    /\ decoded = Returned(date)

C7_Covered == date.microsecond = 0 /\ date.year \in 1969..2068 /\ WholeMinuteOrNaive(date)

\* C7: for a datetime d with microsecond 0 and a year in 1969..2068 that is
\* naive or at an offset of whole minutes,
\* utc_time_to_datetime(utc_time_from_datetime(d)) equals d and is naive
\* exactly when d is; the string has the seconds exactly when d.second > 0,
\* ends in 'Z' exactly when d has no tzinfo and in +HHMM/-HHMM otherwise, and
\* a 'Z' string gives a naive datetime, an offset string an aware one.
C7_UtcRoundTrip ==
    (tpc \in {"utc_string", "utc_done"} /\ C7_Covered) =>
        LET suffix == IF date.tz = NoTz THEN <<"Z">> ELSE SignedHHMM(date.tz)
            seconds == IF date.second > 0 THEN Pad2(date.second) ELSE <<>>
        IN /\ Len(string) = 10 + Len(seconds) + Len(suffix)
           /\ SubSeq(string, 11, 10 + Len(seconds)) = seconds
           /\ Suffix(string, Len(suffix)) = suffix
           /\ \A i \in 1..10 : IsDigit(string[i])
           /\ tpc = "utc_done" =>
                 /\ decoded.kind = "datetime"
                 /\ DatetimeEq(decoded.dt, date)
                 /\ SameStatus(decoded.dt, date)
                 /\ (decoded.dt.tz = NoTz) <=> (string[Len(string)] = "Z")

\* a datetime with seconds at an offset has made the round trip
C7_Witness ==
    /\ tpc = "utc_done"
    /\ C7_Covered
    /\ date.second > 0
    /\ date.tz # NoTz
    /\ date.year = 1969
    /\ decoded = Returned(date)

\* one of the four shapes of a UTC time string
UtcShape(s) ==
    \/ s[Len(s)] = "Z" /\ Len(s) \in {11, 13}
    \/ s[Len(s)] # "Z" /\ Len(s) \in {15, 17}

\* C9: utc_time_to_datetime accepts a non-empty string only in one of four
\* shapes decided by its last character and its length: ending in 'Z' with
\* length 11 or 13, or not ending in 'Z' with length 15 or 17; every other
\* non-empty string raises Error "Expected an UTC time string, but got
\* '<string>'." and no datetime is returned.
C9_UtcShapes ==
    (tpc \in {"string_done", "utc_done"} /\ string # <<>>) =>
        IF UtcShape(string)
        THEN /\ decoded.kind \in {"datetime", "ValueError"}
             /\ decoded.kind = "datetime" =>
                   /\ (decoded.dt.tz = NoTz) <=> (string[Len(string)] = "Z")
                   /\ Len(string) \in {11, 15} => decoded.dt.second = 0
        ELSE /\ decoded.kind = "Error"
             /\ decoded.msg = "Expected an UTC time string, but got '{}'."
             /\ decoded.arg = string
             /\ decoded.dt = NoDate

\* a string that ends in 'Z' and has the length of an offset string is refused
C9_Witness ==
    /\ tpc = "string_done"
    /\ Len(string) = 15
    /\ string[15] = "Z"
    /\ decoded.kind = "Error"
    /\ decoded.arg = string

\* a string of each accepted length has been parsed
C9_WitnessAccepted ==
    /\ tpc = "string_done"
    /\ Len(string) = 17
    /\ decoded.kind = "datetime"
    /\ decoded.dt.tz # NoTz

(***************************************************************************)
(* Properties of the argument parsers                                      *)
(***************************************************************************)
LibraryCodecs == {w_ber, w_der, w_per, w_uper, w_xer, w_jer, w_gser}

FourSubcommands == {w_convert, w_shell, w_parse, w_pickle}

InputFlags == {w_opt_i, w_opt_input_codec}

OutputFlags == {w_opt_o, w_opt_output_codec}

PickleFlags == {w_opt_c, w_opt_codec}

\* the codec options of a command
FlagsOf(cmd) ==
    IF cmd \in {w_convert, w_compile} THEN InputFlags \cup OutputFlags
    ELSE IF cmd = w_pickle THEN PickleFlags ELSE {}

\* every codec option takes the seven codecs of the library
SevenEverywhere(cmd, flag) == IF flag \in FlagsOf(cmd) THEN LibraryCodecs ELSE {}

\* the input codec options do not take gser
NoGserInput(cmd, flag) ==
    IF flag \in FlagsOf(cmd) \cap InputFlags THEN LibraryCodecs \ {w_gser}
    ELSE SevenEverywhere(cmd, flag)

\* the words after -d / --debug
AfterDebug(words) ==
    IF words # <<>> /\ words[1] \in {w_opt_d, w_opt_debug} THEN Tail(words) ELSE words

RECURSIVE OptionCount(_)
\* the number of leading flag-value pairs of words
OptionCount(words) ==
    IF Len(words) >= 2 /\ words[1] \in CodecFlags
    THEN 1 + OptionCount(SubSeq(words, 3, Len(words)))
    ELSE 0

\* the positional arguments a command needs are there
EnoughPositionals(cmd, n) ==
    IF cmd = w_convert THEN n >= 3
    ELSE IF cmd = w_shell THEN n = 0
    ELSE IF cmd = w_compile THEN n >= 1
    ELSE n >= 2

\* words = <<cmd, flag, value, ..., positional, ...>> is to be accepted when
\* each value is among the choices of its flag
ToBeAccepted(words, commands, choices(_, _)) ==
    /\ words # <<>>
    /\ words[1] \in commands
    /\ LET k == OptionCount(Tail(words))
       IN /\ \A j \in 1..k : words[2 * j + 1] \in choices(words[1], words[2 * j])
          /\ EnoughPositionals(words[1], Len(words) - 1 - 2 * k)

\* the value the namespace holds for each option given on the command line
Stored(words, ns) ==
    \A j \in 1..OptionCount(Tail(words)) :
        LET flag == words[2 * j] value == words[2 * j + 1]
        IN /\ flag \in InputFlags => ns.input_codec = value
           /\ flag \in OutputFlags => ns.output_codec = value
           /\ flag \in PickleFlags => ns.codec = value

MainParsed == pc \in {"func", "exited"} /\ consumed = <<>>

CompileTyped == pc = "prompt" /\ Len(consumed) = 1

CodecOptions(choices(_, _)) ==
    /\ MainParsed =>
          /\ (pc = "func") <=> ToBeAccepted(AfterDebug(argv), FourSubcommands, choices)
          /\ pc = "func" => args.ok /\ Stored(AfterDebug(argv), args)
          /\ pc = "exited" => ~args.ok /\ exitStatus = 2
    /\ CompileTyped =>
          LET words == Split(Strip(consumed[1], Whitespace))
          IN /\ (input_spec # None) <=> ToBeAccepted(words, {w_compile}, choices)
             /\ input_spec # None =>
                   Stored(words, [input_codec |-> input_spec.codec,
                                  output_codec |-> output_codec, codec |-> <<>>])

\* C2 as stated: the command line requires one of exactly the subcommands
\* convert, shell, parse and pickle, and each codec option (convert
\* --input-codec and --output-codec, pickle --codec, the shell's compile -i
\* and -o) accepts exactly ber, der, per, uper, xer, jer and gser.
C2_EveryOptionTakesSevenCodecs == CodecOptions(SevenEverywhere)

\* C2 amended: the command line requires one of exactly the subcommands
\* convert, shell, parse and pickle; convert --output-codec, pickle --codec
\* and the shell's compile -o accept exactly ber, der, per, uper, xer, jer and
\* gser, while convert --input-codec and the shell's compile -i accept exactly
\* ber, der, per, uper, xer and jer (not gser).
C2_InputOptionsTakeSixCodecs == CodecOptions(NoGserInput)

\* convert --input-codec gser is rejected by the main parser
C2_Witness ==
    /\ MainParsed
    /\ argv = <<w_convert, w_opt_input_codec, w_gser, w_foo_asn, w_Foo, w_hex_3000>>
    /\ pc = "exited"
    /\ exitStatus = 2

\* compile -i jer -o gser is accepted by the shell
C2_WitnessCompile ==
    /\ CompileTyped
    /\ Split(consumed[1]) = <<w_compile, w_opt_i, w_jer, w_opt_o, w_gser, w_foo_asn>>
    /\ input_spec # None
    /\ input_spec.codec = w_jer
    /\ output_codec = w_gser

(***************************************************************************)
(* Properties of _compile_files                                            *)
(***************************************************************************)
IsPkl(path) == EndsWith(path, w_suffix_pkl)

IsPy(path) == EndsWith(path, w_suffix_py)

Compiling == pc = "compiled"

\* the parsed dictionary kept in a .py file, the specification kept in a .pkl
DictOf(path) == [kind |-> "dict", sources |-> FileContent(path).sources, error |-> "",
                 codec |-> <<>>]

PickledIn(path) == [kind |-> "spec", sources |-> FileContent(path).sources, error |-> "",
                    codec |-> FileContent(path).codec]

CompiledFrom(sources, codec) ==
    [kind |-> "spec", sources |-> sources, error |-> "", codec |-> codec]

CalledOnce(fn) == Cardinality({i \in 1..Len(calls) : calls[i].fn = fn}) = 1

\* C3: given pickled specifications (no .py file), _compile_files succeeds
\* only with exactly two .pkl files among the files; it then takes the input
\* specification from the first .pkl and the output specification from the
\* second, parsing and compiling nothing; with any other number of .pkl files
\* it raises an error and returns no specifications.
C3_TwoPickledSpecifications ==
    LET specs == args.specification
        pkls == SelectSeq(specs, IsPkl)
    IN (Compiling /\ SelectSeq(specs, IsPy) = <<>> /\ pkls # <<>>) =>
           IF Len(pkls) = 2
           THEN /\ raised = <<>>
                /\ input_spec = PickledIn(pkls[1])
                /\ output_spec = PickledIn(pkls[2])
                /\ \A i \in 1..Len(calls) : calls[i].fn = "pickle.load"
           ELSE /\ raised # <<>>
                /\ input_spec = None
                /\ output_spec = None

\* C4: with exactly one .py file among the files, _compile_files takes the
\* parsed dictionary from that file's SPECIFICATION, wherever the file is in
\* the list, and compiles it once for the input codec and once for the output
\* codec; with more than one .py file it raises an error; with no .py and no
\* .pkl file it parses all the files once and compiles the result for both
\* codecs.
C4_OnePythonFile ==
    LET specs == args.specification
        pys == SelectSeq(specs, IsPy)
        pkls == SelectSeq(specs, IsPkl)
    IN Compiling =>
           /\ Len(pys) = 1 =>
                 /\ raised = <<>>
                 /\ input_spec = CompiledFrom(DictOf(pys[1]).sources, args.input_codec)
                 /\ output_spec = CompiledFrom(DictOf(pys[1]).sources, args.output_codec)
                 /\ calls = <<[fn |-> "_import_module", on |-> <<pys[1]>>, codec |-> <<>>],
                              [fn |-> "compile_dict", on |-> DictOf(pys[1]).sources,
                               codec |-> args.input_codec],
                              [fn |-> "compile_dict", on |-> DictOf(pys[1]).sources,
                               codec |-> args.output_codec]>>
           /\ Len(pys) > 1 => raised # <<>> /\ input_spec = None /\ output_spec = None
           /\ (pys = <<>> /\ pkls = <<>>) =>
                 /\ CalledOnce("parse_files")
                 /\ calls[1] = [fn |-> "parse_files", on |-> specs, codec |-> <<>>]
                 /\ raised = <<>> =>
                       /\ input_spec = CompiledFrom(specs, args.input_codec)
                       /\ output_spec = CompiledFrom(specs, args.output_codec)
                       /\ Len(calls) = 3
                       /\ calls[2] = [fn |-> "compile_dict", on |-> specs,
                                      codec |-> args.input_codec]
                       /\ calls[3] = [fn |-> "compile_dict", on |-> specs,
                                      codec |-> args.output_codec]

====
